---- MODULE Spec2Model ----
(***************************************************************************)
(* The AccuDraw Calculator widget (Calculator.tsx): the interaction        *)
(* controller that turns key presses and key-pad clicks into calls on a    *)
(* CalculatorEngine, keeps the display string and the _equalsClicked flag, *)
(* and runs the OK / Cancel life cycle.                                    *)
(*                                                                         *)
(* Strings are sequences of one-character strings: "12" is <<"1", "2">>.   *)
(* Numbers are fixed-point with one fractional digit: the integer n stands *)
(* for n / Scale, so 12 is Num(12) = 120 and 1.5 is 15.                    *)
(***************************************************************************)
EXTENDS Integers, Sequences, FiniteSets, TLC

\* ------------------------------------------------------------------------
\* Bounds
\* ------------------------------------------------------------------------

\* Input events (clicks and key presses) explored after construction.
MaxEvents == 3

\* Input events explored when two calculators are mounted together.
MaxSharedEvents == 2

\* Input events explored when the whole run is recorded.
MaxRecordedEvents == 2

\* Input events explored with an engine that may raise.
MaxRaiseEvents == 2

\* Projects in one answer of the client.
MaxProjects == 2

\* Input events after which the key and button tables are compared in full.
MaxProbedEvents == 1

\* ------------------------------------------------------------------------
\* Numbers and their decimal text
\* ------------------------------------------------------------------------

Scale == 10

Num(n) == n * Scale

DigitChars == <<"0", "1", "2", "3", "4", "5", "6", "7", "8", "9">>

DigitOf(ch) == CHOOSE d \in 0..9 : DigitChars[d + 1] = ch

Abs(n) == IF n < 0 THEN -n ELSE n

RECURSIVE NatToString(_)
NatToString(n) ==
  IF n < 10 THEN <<DigitChars[n + 1]>>
  ELSE NatToString(n \div 10) \o <<DigitChars[(n % 10) + 1]>>

\* Number.prototype.toString for a fixed-point number: sign, integer digits,
\* and the fractional digit when it is not zero.
NumberToString(n) ==
  LET a == Abs(n)
      intPart == NatToString(a \div Scale)
      frac == a % Scale
  IN (IF n < 0 THEN <<"-">> ELSE <<>>) \o intPart
       \o (IF frac = 0 THEN <<>> ELSE <<".", DigitChars[frac + 1]>>)

RECURSIVE ParseNat(_)
ParseNat(s) ==
  IF Len(s) = 0 THEN 0
  ELSE ParseNat(SubSeq(s, 1, Len(s) - 1)) * 10 + DigitOf(s[Len(s)])

DotIndex(s) ==
  IF \E i \in 1..Len(s) : s[i] = "."
  THEN CHOOSE i \in 1..Len(s) : s[i] = "." /\ \A j \in 1..(i - 1) : s[j] # "."
  ELSE 0

\* parseFloat of a display string, kept to one fractional digit.
ParseFloat(s) ==
  LET neg == Len(s) > 0 /\ s[1] = "-"
      body == IF neg THEN Tail(s) ELSE s
      dot == DotIndex(body)
      intDigits == IF dot = 0 THEN body ELSE SubSeq(body, 1, dot - 1)
      frac == IF dot # 0 /\ Len(body) > dot THEN DigitOf(body[dot + 1]) ELSE 0
      mag == ParseNat(intDigits) * Scale + frac
  IN IF neg THEN -mag ELSE mag

\* ------------------------------------------------------------------------
\* CalculatorOperator and CalculatorEngine (./CalculatorEngine)
\* ------------------------------------------------------------------------

CalculatorOperator ==
  {"ClearAll", "Clear", "Backspace", "Divide", "Multiply", "Subtract", "Add",
   "Decimal", "Equals", "NegPos"}

BinaryOperators == {"Divide", "Multiply", "Subtract", "Add"}

\* An optional number is a sequence of at most one number.
NoOperand == <<>>

\* The engine in its cleared state: the display reads "0".
ClearedEngine ==
  [display |-> <<"0">>, operand |-> NoOperand, pending |-> "None", waiting |-> FALSE]

\* The quotient by zero is taken as 0: the engine is total.
Calculate(op, a, b) ==
  CASE op = "Add" -> a + b
    [] op = "Subtract" -> a - b
    [] op = "Multiply" ->
         LET p == a * b IN IF p < 0 THEN -((-p) \div Scale) ELSE p \div Scale
    [] op = "Divide" ->
         IF b = 0 THEN 0
         ELSE LET q == (Abs(a) * Scale) \div Abs(b)
              IN IF (a < 0) # (b < 0) THEN -q ELSE q
    [] OTHER -> b

EngineResult(e) == ParseFloat(e.display)

EngineProcessValue(e, value) ==
  IF e.waiting THEN [e EXCEPT !.display = value, !.waiting = FALSE]
  ELSE [e EXCEPT !.display = IF @ = <<"0">> THEN value ELSE @ \o value]

EngineClearAll(e) == ClearedEngine

\* Fold the pending binary operator into the operand.
EngineFold(e) ==
  IF e.operand = NoOperand THEN EngineResult(e)
  ELSE IF e.pending = "None" \/ e.waiting THEN IF e.waiting THEN e.operand[1] ELSE EngineResult(e)
  ELSE Calculate(e.pending, e.operand[1], EngineResult(e))

EngineProcessOperator(e, op) ==
  CASE op = "ClearAll" -> ClearedEngine
    [] op = "Clear" -> [e EXCEPT !.display = <<"0">>]
    [] op = "Backspace" ->
         [e EXCEPT !.display =
            IF Len(@) <= 1 \/ (Len(@) = 2 /\ @[1] = "-") THEN <<"0">>
            ELSE SubSeq(@, 1, Len(@) - 1)]
    [] op = "NegPos" ->
         [e EXCEPT !.display =
            IF @ = <<"0">> THEN @
            ELSE IF @[1] = "-" THEN Tail(@) ELSE <<"-">> \o @]
    [] op = "Decimal" ->
         IF e.waiting THEN [e EXCEPT !.display = <<"0", ".">>, !.waiting = FALSE]
         ELSE IF DotIndex(e.display) # 0 THEN e
         ELSE [e EXCEPT !.display = @ \o <<".">>]
    [] op \in BinaryOperators ->
         LET v == EngineFold(e)
         IN [display |-> NumberToString(v), operand |-> <<v>>, pending |-> op, waiting |-> TRUE]
    [] op = "Equals" ->
         LET v == EngineFold(e)
         IN [display |-> NumberToString(v), operand |-> <<v>>, pending |-> "None", waiting |-> TRUE]

\* ------------------------------------------------------------------------
\* Calculator (Calculator.tsx)
\* ------------------------------------------------------------------------

VARIABLES
  props,          \* props[c]: initialValue, onOk, onCancel, engine of calculator c
  displayValue,   \* displayValue[c]: this.state.displayValue
  equalsClicked,  \* equalsClicked[c]: this._equalsClicked
  engines,        \* engines[id]: the state of each CalculatorEngine instance
  event,          \* the input event handled last
  calls,          \* the calls the handler of that event made, in order
  nEvents,        \* input events handled so far
  equalsPending,  \* equalsPending[c]: history of the engine calls of calculator c, see Track
  recording,      \* whether this run keeps the record below
  record,         \* every input event so far with the engine calls it led to
  uncaught,       \* whether that handler ended with an error that reached the host
  pc,             \* where DefaultProjectServices.getProjects stands
  request,        \* the arguments of that call
  queries,        \* the queries it has sent to the client, with their answers
  projectList,    \* its local projectList: <<>> while unassigned, else <<list>>
  settled         \* the promise it returned

vars ==
  <<props, displayValue, equalsClicked, engines, event, calls, nEvents,
    equalsPending, recording, record, uncaught,
    pc, request, queries, projectList, settled>>

projectVars == <<pc, request, queries, projectList, settled>>

calculatorVars ==
  <<props, displayValue, equalsClicked, engines, event, calls, nEvents,
    equalsPending, recording, record, uncaught>>

\* getProjects has not been called.
NoProjectRequest ==
  /\ pc = "idle"
  /\ request = <<>>
  /\ queries = <<>>
  /\ projectList = <<>>
  /\ settled = [state |-> "none"]

\* Calculator.defaultProps.engine: one instance, created when the class loads.
DefaultEngine == "defaultProps.engine"

\* An engine the host creates and passes to calculator c.
HostEngine(c) == IF c = 1 THEN "hostEngine1" ELSE "hostEngine2"

Calculators == {1, 2}

EngineIds == {DefaultEngine} \cup {HostEngine(c) : c \in Calculators}

NoValue == <<>>

InitialValues == {NoValue, <<Num(0)>>, <<Num(12)>>}

\* JavaScript truthiness of an optional number: undefined and 0 are falsy.
Truthy(v) == v # NoValue /\ v[1] # 0

\* The part of the state a handler reads and writes.
\* engineRaises: the engine raises in its next processValue or
\* processOperator; thrown: an error is propagating out of the handler.
Current ==
  [displayValue |-> displayValue, equalsClicked |-> equalsClicked,
   engines |-> engines, calls |-> <<>>, engineRaises |-> FALSE, thrown |-> FALSE]

\* The same state, with an engine whose next call raises. A call that
\* raises leaves the engine as it was.
Failing == [Current EXCEPT !.engineRaises = TRUE]

mainDivFocus(s, c) == [s EXCEPT !.calls = Append(@, [fn |-> "focus"])]

onValueButtonClick(s, c, keyChar) ==
  LET id == props[c].engine
      e == EngineProcessValue(s.engines[id], keyChar)
      called == [s EXCEPT !.engines[id] = e,
                          !.calls = Append(@, [fn |-> "processValue", engine |-> id,
                                               chars |-> keyChar])]
      focused == mainDivFocus(called, c)
  IN IF s.engineRaises
     THEN [s EXCEPT !.calls = Append(@, [fn |-> "processValue", engine |-> id,
                                         chars |-> keyChar]),
                    !.thrown = TRUE]
     ELSE [focused EXCEPT !.displayValue[c] = e.display]

PromoteNever(operator, finalized) == operator

PromoteEdits(operator, finalized) ==
  IF operator \in {"Clear", "Backspace"} /\ finalized THEN "ClearAll" ELSE operator

\* The test that reassigns operator before the engine call.
Promote(operator, finalized) ==
  IF operator = "Clear" /\ finalized THEN "ClearAll" ELSE operator

AfterOperatorNoReset(operator, finalized) ==
  IF operator = "Equals" THEN TRUE ELSE finalized

\* The update of _equalsClicked that follows the engine call.
AfterOperator(operator, finalized) ==
  IF operator = "Equals" THEN TRUE
  ELSE IF operator = "ClearAll" THEN FALSE
  ELSE finalized

onOperatorButtonClick(s, c, op) ==
  LET id == props[c].engine
      operator == Promote(op, s.equalsClicked[c])
      e == EngineProcessOperator(s.engines[id], operator)
      called == [s EXCEPT !.engines[id] = e,
                          !.calls = Append(@, [fn |-> "processOperator", engine |-> id,
                                               operator |-> operator])]
      focused == mainDivFocus(called, c)
  IN IF s.engineRaises
     THEN [s EXCEPT !.calls = Append(@, [fn |-> "processOperator", engine |-> id,
                                         operator |-> operator]),
                    !.thrown = TRUE]
     ELSE [focused EXCEPT !.displayValue[c] = e.display,
                          !.equalsClicked[c] = AfterOperator(operator, @)]

clearAllAndDisplay(s, c) ==
  LET id == props[c].engine
  IN [s EXCEPT !.engines[id] = EngineClearAll(@),
               !.calls = Append(@, [fn |-> "clearAll", engine |-> id]),
               !.equalsClicked[c] = FALSE,
               !.displayValue[c] = EngineClearAll(s.engines[id]).display]

clearAll(s, c) ==
  LET id == props[c].engine
  IN [s EXCEPT !.engines[id] = EngineClearAll(@),
               !.calls = Append(@, [fn |-> "clearAll", engine |-> id]),
               !.equalsClicked[c] = FALSE]

okOnlyWithCallback(s, c) ==
  LET id == props[c].engine
  IN IF props[c].onOk
     THEN clearAll([s EXCEPT !.calls = @ \o <<[fn |-> "result", engine |-> id,
                                               ret |-> EngineResult(s.engines[id])],
                                              [fn |-> "onOk",
                                               value |-> EngineResult(s.engines[id])]>>],
                   c)
     ELSE s

okAfterClear(s, c) ==
  LET id == props[c].engine
      cleared == clearAll(s, c)
  IN IF props[c].onOk
     THEN [cleared EXCEPT !.calls = @ \o <<[fn |-> "result", engine |-> id,
                                            ret |-> EngineResult(cleared.engines[id])],
                                           [fn |-> "onOk",
                                            value |-> EngineResult(cleared.engines[id])]>>]
     ELSE cleared

ok(s, c) ==
  LET id == props[c].engine
      notified ==
        IF props[c].onOk
        THEN [s EXCEPT !.calls = @ \o <<[fn |-> "result", engine |-> id,
                                         ret |-> EngineResult(s.engines[id])],
                                        [fn |-> "onOk",
                                         value |-> EngineResult(s.engines[id])]>>]
        ELSE s
  IN clearAll(notified, c)

cancelByOperator(s, c) ==
  LET notified ==
        IF props[c].onCancel
        THEN [s EXCEPT !.calls = Append(@, [fn |-> "onCancel"])]
        ELSE s
  IN onOperatorButtonClick(notified, c, "ClearAll")

cancel(s, c) ==
  LET notified ==
        IF props[c].onCancel
        THEN [s EXCEPT !.calls = Append(@, [fn |-> "onCancel"])]
        ELSE s
  IN clearAll(notified, c)

Keys ==
  {"0", "1", "2", "3", "4", "5", "6", "7", "8", "9", "a", "A", "c", "C", "Clear",
   "Escape", "Backspace", "/", "Divide", "*", "Multiply", "-", "Subtract", "+", "Add",
   ".", "Decimal", "=", "Enter",
   \* keys the switch has no case for
   "n", "Tab"}

keyEnterAlwaysEquals(s, c) == ok(onOperatorButtonClick(s, c, "Equals"), c)

keyEnterCommitFirst(s, c) ==
  LET committed == ok(s, c)
  IN IF ~s.equalsClicked[c] THEN onOperatorButtonClick(committed, c, "Equals")
     ELSE committed

keyEnterSwallows(s, c) ==
  LET first == IF ~s.equalsClicked[c] THEN onOperatorButtonClick(s, c, "Equals")
               ELSE s
  IN ok([first EXCEPT !.thrown = FALSE], c)

\* case "Enter": an error of the Equals call leaves the handler before _ok().
keyEnter(s, c) ==
  LET first == IF ~s.equalsClicked[c] THEN onOperatorButtonClick(s, c, "Equals")
               ELSE s
  IN IF first.thrown THEN first ELSE ok(first, c)

keyDecimalAsValue(s, c) == onValueButtonClick(s, c, <<".">>)

\* case "." and case "Decimal"
keyDecimal(s, c) == onOperatorButtonClick(s, c, "Decimal")

keyOtherFocus(s, c) == mainDivFocus(s, c)

\* The switch has no default: any other key falls out of it.
keyOther(s, c) == s

handleKeyDown(s, c, key) ==
  CASE key \in {"0", "1", "2", "3", "4", "5", "6", "7", "8", "9"} ->
         onValueButtonClick(s, c, <<key>>)
    [] key \in {"a", "A"} -> onOperatorButtonClick(s, c, "ClearAll")
    [] key \in {"c", "C", "Clear"} -> onOperatorButtonClick(s, c, "Clear")
    [] key = "Escape" -> cancel(s, c)
    [] key = "Backspace" -> onOperatorButtonClick(s, c, "Backspace")
    [] key \in {"/", "Divide"} -> onOperatorButtonClick(s, c, "Divide")
    [] key \in {"*", "Multiply"} -> onOperatorButtonClick(s, c, "Multiply")
    [] key \in {"-", "Subtract"} -> onOperatorButtonClick(s, c, "Subtract")
    [] key \in {"+", "Add"} -> onOperatorButtonClick(s, c, "Add")
    [] key \in {".", "Decimal"} -> keyDecimal(s, c)
    [] key = "=" -> onOperatorButtonClick(s, c, "Equals")
    [] key = "Enter" -> keyEnter(s, c)
    [] OTHER -> keyOther(s, c)

\* The buttons CalculatorKeyPad renders.
KeyPadValues == {"7", "8", "9", "4", "5", "6", "1", "2", "3", "0"}

KeyPadWithoutEquals ==
  {"ClearAll", "Clear", "Backspace", "Divide", "Multiply", "Subtract", "Add",
   "NegPos", "Decimal"}

KeyPadOperators ==
  {"ClearAll", "Clear", "Backspace", "Divide", "Multiply", "Subtract", "Add",
   "NegPos", "Decimal", "Equals"}

\* new Calculator(p) followed by componentDidMount, for calculator c.
Construct(s, c, p) ==
  LET id == p.engine
      e == EngineProcessValue(s.engines[id], NumberToString(p.initialValue[1]))
      seeded ==
        IF Truthy(p.initialValue)
        THEN [s EXCEPT !.engines[id] = e,
                       !.calls = Append(@, [fn |-> "processValue", engine |-> id,
                                            chars |-> NumberToString(p.initialValue[1])]),
                       !.displayValue[c] = e.display]
        ELSE [s EXCEPT !.displayValue[c] = <<"0">>]
  IN mainDivFocus([seeded EXCEPT !.equalsClicked[c] = FALSE], c)

\* Before any calculator is constructed: every engine is new.
Loaded(cs) ==
  [displayValue |-> [c \in cs |-> <<>>], equalsClicked |-> [c \in cs |-> FALSE],
   engines |-> [id \in EngineIds |-> ClearedEngine], calls |-> <<>>,
   engineRaises |-> FALSE, thrown |-> FALSE]

Install(s) ==
  /\ displayValue = s.displayValue
  /\ equalsClicked = s.equalsClicked
  /\ engines = s.engines
  /\ calls = s.calls
  /\ uncaught = s.thrown

\* The calls of a log that reach the engine's processValue or processOperator.
Dispatched(log) ==
  SelectSeq(log, LAMBDA call : call.fn \in {"processValue", "processOperator"})

\* History of a call log: whether the engine has received Equals and, since
\* then, neither the operator ClearAll nor clearAll().
RECURSIVE Track(_, _)
Track(log, pending) ==
  IF log = <<>> THEN pending
  ELSE Track(Tail(log),
             CASE Head(log).fn = "clearAll" -> FALSE
               [] Head(log).fn = "processOperator" /\ Head(log).operator = "Equals" -> TRUE
               [] Head(log).fn = "processOperator" /\ Head(log).operator = "ClearAll" -> FALSE
               [] OTHER -> pending)

\* The handler of an event of calculator c has run to completion, leaving s.
Commit(s, c) ==
  /\ displayValue' = s.displayValue
  /\ equalsClicked' = s.equalsClicked
  /\ engines' = s.engines
  /\ calls' = s.calls
  /\ uncaught' = s.thrown
  /\ nEvents' = nEvents + 1
  /\ equalsPending' = [equalsPending EXCEPT ![c] = Track(s.calls, @)]
  /\ record' = IF recording
               THEN Append(record, [event |-> event', calls |-> Dispatched(s.calls)])
               ELSE record
  /\ UNCHANGED <<props, recording>>
  /\ UNCHANGED projectVars

\* The props a host passes: an initial value or none, both callbacks or
\* neither (ok() reads onOk alone and cancel() onCancel alone), no engine.
HostProps ==
  {p \in [initialValue : InitialValues, onOk : BOOLEAN, onCancel : BOOLEAN,
          engine : {DefaultEngine}] :
     /\ p.onOk = p.onCancel
     /\ p.onOk \/ p.initialValue = NoValue}

\* One calculator, using the default engine.
Init ==
  /\ props \in [{1} -> HostProps]
  /\ Install(Construct(Loaded({1}), 1, props[1]))
  /\ event = [source |-> "construct", calculator |-> 1]
  /\ nEvents = 0
  /\ equalsPending = [c \in {1} |-> FALSE]
  /\ recording = FALSE
  /\ record = <<>>
  /\ NoProjectRequest

\* Two calculators, constructed one after the other, each with the default
\* engine or with an engine of its own.
InitShared ==
  /\ props \in [{1, 2} -> [initialValue : {NoValue}, onOk : {TRUE}, onCancel : {TRUE},
                           engine : EngineIds]]
  /\ \A c \in {1, 2} : props[c].engine \in {DefaultEngine, HostEngine(c)}
  /\ Install(Construct(Construct(Loaded({1, 2}), 1, props[1]), 2, props[2]))
  /\ event = [source |-> "construct", calculator |-> 2]
  /\ nEvents = 0
  /\ equalsPending = [c \in {1, 2} |-> FALSE]
  /\ recording = FALSE
  /\ record = <<>>
  /\ NoProjectRequest

\* One calculator, every input event recorded.
InitRecorded ==
  /\ props \in [{1} -> [initialValue : {NoValue, <<Num(12)>>}, onOk : {TRUE},
                        onCancel : {TRUE}, engine : {DefaultEngine}]]
  /\ Install(Construct(Loaded({1}), 1, props[1]))
  /\ event = [source |-> "construct", calculator |-> 1]
  /\ nEvents = 0
  /\ equalsPending = [c \in {1} |-> FALSE]
  /\ recording = TRUE
  /\ record = <<>>
  /\ NoProjectRequest

\* One calculator with an engine supplied by the host, whose calls may raise.
InitRaise ==
  /\ props \in [{1} -> [initialValue : {<<Num(12)>>}, onOk : {TRUE}, onCancel : {TRUE},
                        engine : {HostEngine(1)}]]
  /\ Install(Construct(Loaded({1}), 1, props[1]))
  /\ event = [source |-> "construct", calculator |-> 1]
  /\ nEvents = 0
  /\ equalsPending = [c \in {1} |-> FALSE]
  /\ recording = FALSE
  /\ record = <<>>
  /\ NoProjectRequest

EventLimit ==
  IF recording THEN MaxRecordedEvents
  ELSE IF Cardinality(DOMAIN props) # 1 THEN MaxSharedEvents
  ELSE IF \A c \in DOMAIN props : props[c].engine = DefaultEngine THEN MaxEvents
  ELSE MaxRaiseEvents

\* onKeyDown of the main div.
KeyDown(c, key) ==
  /\ nEvents < EventLimit
  /\ event' = [source |-> "key", calculator |-> c, key |-> key]
  /\ Commit(handleKeyDown(Current, c, key), c)

\* ValueButton._handleOnClick
ValueButtonClick(c, keyChar) ==
  /\ nEvents < EventLimit
  /\ event' = [source |-> "valueButton", calculator |-> c, keyChar |-> keyChar]
  /\ Commit(onValueButtonClick(Current, c, <<keyChar>>), c)

\* OperatorButton._handleOnClick
OperatorButtonClick(c, operator) ==
  /\ nEvents < EventLimit
  /\ event' = [source |-> "operatorButton", calculator |-> c, operator |-> operator]
  /\ Commit(onOperatorButtonClick(Current, c, operator), c)

handleOk(c) ==
  /\ nEvents < EventLimit
  /\ event' = [source |-> "okButton", calculator |-> c]
  /\ Commit(ok(Current, c), c)

handleCancel(c) ==
  /\ nEvents < EventLimit
  /\ event' = [source |-> "cancelButton", calculator |-> c]
  /\ Commit(cancel(Current, c), c)

Next ==
  \/ \E c \in DOMAIN props, key \in Keys : KeyDown(c, key)
  \/ \E c \in DOMAIN props, keyChar \in KeyPadValues : ValueButtonClick(c, keyChar)
  \/ \E c \in DOMAIN props, operator \in KeyPadOperators : OperatorButtonClick(c, operator)
  \/ \E c \in DOMAIN props : handleOk(c)
  \/ \E c \in DOMAIN props : handleCancel(c)

\* onKeyDown of the main div, with an engine that raises when called.
KeyDownRaising(c, key) ==
  /\ nEvents < EventLimit
  /\ event' = [source |-> "key", calculator |-> c, key |-> key, engineRaises |-> TRUE]
  /\ Commit(handleKeyDown(Failing, c, key), c)

\* ValueButton._handleOnClick, with an engine that raises when called.
ValueButtonClickRaising(c, keyChar) ==
  /\ nEvents < EventLimit
  /\ event' = [source |-> "valueButton", calculator |-> c, keyChar |-> keyChar,
               engineRaises |-> TRUE]
  /\ Commit(onValueButtonClick(Failing, c, <<keyChar>>), c)

\* OperatorButton._handleOnClick, with an engine that raises when called.
OperatorButtonClickRaising(c, operator) ==
  /\ nEvents < EventLimit
  /\ event' = [source |-> "operatorButton", calculator |-> c, operator |-> operator,
               engineRaises |-> TRUE]
  /\ Commit(onOperatorButtonClick(Failing, c, operator), c)

NextRaise ==
  \/ Next
  \/ \E c \in DOMAIN props, key \in Keys : KeyDownRaising(c, key)
  \/ \E c \in DOMAIN props, keyChar \in KeyPadValues : ValueButtonClickRaising(c, keyChar)
  \/ \E c \in DOMAIN props, operator \in KeyPadOperators :
       OperatorButtonClickRaising(c, operator)

Spec == Init /\ [][Next]_vars

SpecRaise == InitRaise /\ [][NextRaise]_vars

SpecShared == InitShared /\ [][Next]_vars

SpecRecorded == InitRecorded /\ [][Next]_vars

\* ------------------------------------------------------------------------
\* DefaultProjectServices
\* ------------------------------------------------------------------------

\* The scopes getProjects tells apart; All stands for every other scope.
ProjectScope == {"Invited", "Favorites", "MostRecentlyUsed", "All"}

\* Projects the client may answer with. name and number are optional:
\* <<>> when undefined.
Projects ==
  {[name |-> <<"Plant">>, number |-> <<"P-1">>, wsgId |-> "w1"],
   [name |-> <<>>, number |-> <<"">>, wsgId |-> "w2"]}

\* The answers of the client: lists of at most MaxProjects projects.
ProjectLists == UNION {[1..n -> Projects] : n \in 0..MaxProjects}

\* value ? value : "" for an optional string.
OrEmpty(value) == IF value # <<>> /\ value[1] # "" THEN value[1] ELSE ""

createProjectInfo(thisProject) ==
  [name |-> OrEmpty(thisProject.name), projectNumber |-> OrEmpty(thisProject.number),
   wsgId |-> thisProject.wsgId, readStatus |-> "NotRead"]

\* The query options built from the arguments; isFavorite and isMRU are
\* TRUE when the option is set.
QueryOptions(top, skip, filter) ==
  [select |-> "*", top |-> top, skip |-> skip, filter |-> filter,
   isFavorite |-> FALSE, isMRU |-> FALSE]

\* The options of the general query for a scope.
ScopedOptions(options, projectScope) ==
  IF projectScope = "Favorites" THEN [options EXCEPT !.isFavorite = TRUE]
  ELSE IF projectScope = "MostRecentlyUsed" THEN [options EXCEPT !.isMRU = TRUE]
  ELSE options

Query(fn, options) == [fn |-> fn, options |-> options, answer |-> <<>>]

\* queries with the answer of the query in flight filled in.
Answered(list) == [queries EXCEPT ![Len(queries)].answer = <<list>>]

\* No calculator is mounted while the project service runs.
InitProjects ==
  /\ props = <<>>
  /\ Install(Loaded({}))
  /\ event = [source |-> "load"]
  /\ nEvents = 0
  /\ equalsPending = <<>>
  /\ recording = FALSE
  /\ record = <<>>
  /\ NoProjectRequest

\* getProjects is called and runs up to its first await.
getProjects(projectScope, top, skip, filter) ==
  /\ pc = "idle"
  /\ request' = <<[projectScope |-> projectScope, top |-> top, skip |-> skip,
                   filter |-> filter]>>
  /\ IF projectScope = "Invited"
     THEN /\ queries' = <<Query("getInvitedProjects", QueryOptions(top, skip, filter))>>
          /\ pc' = "getInvitedProjects"
     ELSE /\ queries' = <<Query("getProjects",
                                ScopedOptions(QueryOptions(top, skip, filter),
                                              projectScope))>>
          /\ pc' = "getProjects"
  /\ UNCHANGED <<projectList, settled>>
  /\ UNCHANGED calculatorVars

\* The client answers getInvitedProjects; the function goes on to the
\* scope tests and to the general query.
InvitedProjectsResolve(list) ==
  /\ pc = "getInvitedProjects"
  /\ projectList' = <<list>>
  /\ queries' = Append(Answered(list),
                       Query("getProjects",
                             ScopedOptions(queries[1].options, request[1].projectScope)))
  /\ pc' = "getProjects"
  /\ UNCHANGED <<request, settled>>
  /\ UNCHANGED calculatorVars

\* The client answers getProjects; the function maps projectList and returns.
ProjectsResolve(list) ==
  /\ pc = "getProjects"
  /\ projectList' = <<list>>
  /\ queries' = Answered(list)
  /\ settled' = [state |-> "resolved",
                  projects |-> [i \in 1..Len(list) |-> createProjectInfo(list[i])]]
  /\ pc' = "done"
  /\ UNCHANGED request
  /\ UNCHANGED calculatorVars

\* Either query fails: the catch clause alerts and rejects.
ClientRejects ==
  /\ pc \in {"getInvitedProjects", "getProjects"}
  /\ settled' = [state |-> "rejected"]
  /\ pc' = "done"
  /\ UNCHANGED <<request, queries, projectList>>
  /\ UNCHANGED calculatorVars

NextProjects ==
  \/ \E projectScope \in ProjectScope, top \in {1, 2}, skip \in {0},
        filter \in {<<>>, <<"name">>} : getProjects(projectScope, top, skip, filter)
  \/ \E list \in ProjectLists : InvitedProjectsResolve(list)
  \/ \E list \in ProjectLists : ProjectsResolve(list)
  \/ ClientRejects

SpecProjects == InitProjects /\ [][NextProjects]_vars

TypeOK ==
  /\ \A c \in DOMAIN props : equalsClicked[c] \in BOOLEAN /\ Len(displayValue[c]) > 0
  /\ nEvents \in 0..EventLimit
  /\ uncaught \in BOOLEAN
  /\ pc \in {"idle", "getInvitedProjects", "getProjects", "done"}
  /\ Len(queries) <= 2 /\ Len(projectList) <= 1

\* ------------------------------------------------------------------------
\* Vocabulary of the properties
\* ------------------------------------------------------------------------

\* The key table of the input normalizer: the operator a key stands for.
KeyOperator ==
  [key \in {"a", "A", "c", "C", "Clear", "Backspace", "/", "Divide", "*", "Multiply",
            "-", "Subtract", "+", "Add", ".", "Decimal", "="} |->
     CASE key \in {"a", "A"} -> "ClearAll"
       [] key \in {"c", "C", "Clear"} -> "Clear"
       [] key = "Backspace" -> "Backspace"
       [] key \in {"/", "Divide"} -> "Divide"
       [] key \in {"*", "Multiply"} -> "Multiply"
       [] key \in {"-", "Subtract"} -> "Subtract"
       [] key \in {"+", "Add"} -> "Add"
       [] key \in {".", "Decimal"} -> "Decimal"
       [] key = "=" -> "Equals"]

DigitKeys == {"0", "1", "2", "3", "4", "5", "6", "7", "8", "9"}

\* The event is a value action, from a key or from a button.
IsValueEvent(ev) ==
  \/ ev.source = "valueButton"
  \/ ev.source = "key" /\ ev.key \in DigitKeys

ValueOf(ev) == IF ev.source = "valueButton" THEN ev.keyChar ELSE ev.key

\* The event is an operator action, from a key or from a button.
IsOperatorEvent(ev) ==
  \/ ev.source = "operatorButton"
  \/ ev.source = "key" /\ ev.key \in DOMAIN KeyOperator

OperatorOf(ev) == IF ev.source = "operatorButton" THEN ev.operator ELSE KeyOperator[ev.key]

IsKey(ev, key) == ev.source = "key" /\ ev.key = key

\* The event runs commit(): the OK button or Enter.
IsCommitEvent(ev) == ev.source = "okButton" \/ IsKey(ev, "Enter")

\* The event runs cancel(): the Cancel button or Escape.
IsCancelEvent(ev) == ev.source = "cancelButton" \/ IsKey(ev, "Escape")

\* A step that handles an input event of calculator c.
Handles(c) == nEvents' = nEvents + 1 /\ event'.calculator = c

ValueCall(c, chars) == [fn |-> "processValue", engine |-> props[c].engine, chars |-> chars]

OperatorCall(c, operator) ==
  [fn |-> "processOperator", engine |-> props[c].engine, operator |-> operator]

ClearAllCall(c) == [fn |-> "clearAll", engine |-> props[c].engine]

\* The positions of log that call fn.
Positions(log, fn) == {i \in 1..Len(log) : log[i].fn = fn}

\* The engine e after it has received the calls of log, in order.
RECURSIVE EngineAfter(_, _)
EngineAfter(e, log) ==
  IF log = <<>> THEN e
  ELSE EngineAfter(
         CASE Head(log).fn = "processValue" -> EngineProcessValue(e, Head(log).chars)
           [] Head(log).fn = "processOperator" ->
                EngineProcessOperator(e, Head(log).operator)
           [] Head(log).fn = "clearAll" -> EngineClearAll(e)
           [] OTHER -> e,
         Tail(log))

\* The one position of log that calls fn (0 when there is none).
PositionOf(log, fn) ==
  IF Positions(log, fn) = {} THEN 0 ELSE CHOOSE i \in Positions(log, fn) : TRUE

\* ------------------------------------------------------------------------
\* Properties
\* ------------------------------------------------------------------------

\* C1: submitOperator(Clear), from the C button or the keys c, C, Clear, makes
\* the engine receive ClearAll and never Clear when resultFinalized is true,
\* and Clear unchanged when it is false; the flag is false afterwards in both
\* cases.
C1_ClearTieBreak ==
  [][\A c \in DOMAIN props :
       Handles(c) /\ IsOperatorEvent(event') /\ OperatorOf(event') = "Clear" =>
         /\ Dispatched(calls') =
              <<OperatorCall(c, IF equalsClicked[c] THEN "ClearAll" ELSE "Clear")>>
         /\ ~equalsClicked'[c]]_vars

\* A Clear was promoted: the input was Clear and the engine received ClearAll.
C1_Witness ==
  /\ IsOperatorEvent(event) /\ OperatorOf(event) = "Clear"
  /\ Dispatched(calls) = <<OperatorCall(event.calculator, "ClearAll")>>
  /\ ~equalsClicked[event.calculator]

\* C2: commit(), from the OK button or as the last step of Enter, with a
\* commit callback supplied: the callback is invoked exactly once, with the
\* result the engine has at that moment; the result is read and the callback
\* invoked before the one clearAll(), and commit() dispatches no processValue
\* or processOperator call.
C2_CommitDeliversResult ==
  [][\A c \in DOMAIN props :
       Handles(c) /\ IsCommitEvent(event') /\ props[c].onOk =>
         LET read == PositionOf(calls', "result")
             call == PositionOf(calls', "onOk")
             clear == PositionOf(calls', "clearAll")
         IN /\ Cardinality(Positions(calls', "result")) = 1
            /\ Cardinality(Positions(calls', "onOk")) = 1
            /\ Cardinality(Positions(calls', "clearAll")) = 1
            /\ read < call /\ call < clear
            /\ calls'[call].value =
                 EngineResult(EngineAfter(engines[props[c].engine],
                                          SubSeq(calls', 1, read - 1)))
            /\ Dispatched(SubSeq(calls', read, Len(calls'))) = <<>>
            /\ event'.source = "okButton" => Dispatched(calls') = <<>>]_vars

\* A commit delivered a result that the cleared engine no longer has.
C2_Witness ==
  /\ IsCommitEvent(event)
  /\ \E i \in Positions(calls, "onOk") :
       /\ calls[i].value # EngineResult(engines[props[event.calculator].engine])
       /\ \E j \in Positions(calls, "clearAll") : i < j

\* C3: after every commit() and every cancel(), displayValue is the display
\* string of the cleared engine and resultFinalized is false.
C3_ResetShowsClearedDisplay ==
  \A c \in DOMAIN props :
    event.calculator = c /\ (IsCommitEvent(event) \/ IsCancelEvent(event)) =>
      /\ displayValue[c] = EngineClearAll(engines[props[c].engine]).display
      /\ ~equalsClicked[c]

\* C4: on Enter the controller dispatches Equals exactly once, and before
\* commit(), when resultFinalized is false, and does not dispatch it when the
\* flag is true; commit() runs exactly once, its callback receives the result
\* the engine has after that Equals, and the flag is false afterwards.
C4_EnterEqualsThenCommit ==
  [][\A c \in DOMAIN props :
       Handles(c) /\ IsKey(event', "Enter") =>
         LET id == props[c].engine
             atCommit == IF equalsClicked[c] THEN engines[id]
                         ELSE EngineProcessOperator(engines[id], "Equals")
         IN /\ Dispatched(calls') =
                 IF equalsClicked[c] THEN <<>> ELSE <<OperatorCall(c, "Equals")>>
            /\ Cardinality(Positions(calls', "clearAll")) = 1
            /\ \A i \in Positions(calls', "processOperator") :
                 \A j \in 1..Len(calls') :
                   calls'[j].fn \in {"result", "onOk", "clearAll"} => i < j
            /\ IF props[c].onOk
               THEN /\ Cardinality(Positions(calls', "onOk")) = 1
                    /\ calls'[PositionOf(calls', "onOk")].value = EngineResult(atCommit)
               ELSE Positions(calls', "onOk") = {}
            /\ ~equalsClicked'[c]]_vars

\* 12, +, 3, Enter: Equals was dispatched and the callback received 15.
C4_Witness ==
  /\ IsKey(event, "Enter")
  /\ Dispatched(calls) = <<OperatorCall(event.calculator, "Equals")>>
  /\ \E i \in Positions(calls, "onOk") : calls[i].value = Num(15)
  /\ ~equalsClicked[event.calculator]

\* C5: on Escape cancel() runs exactly once: the cancel callback, if supplied,
\* is invoked once without arguments, nothing is dispatched to the engine, and
\* afterwards the engine is cleared and resultFinalized is false, the same
\* reset as commit().
C5_EscapeCancels ==
  [][\A c \in DOMAIN props :
       Handles(c) /\ IsKey(event', "Escape") =>
         LET id == props[c].engine
         IN /\ calls' = (IF props[c].onCancel THEN <<[fn |-> "onCancel"]>> ELSE <<>>)
                          \o <<ClearAllCall(c)>>
            /\ engines'[id] = EngineClearAll(engines[id])
            /\ ~equalsClicked'[c]
            /\ engines' = ok(Current, c).engines
            /\ equalsClicked' = ok(Current, c).equalsClicked]_vars

\* Escape after input: the callback ran, the engine is cleared.
C5_Witness ==
  /\ IsKey(event, "Escape")
  /\ calls = <<[fn |-> "onCancel"], ClearAllCall(event.calculator)>>
  /\ displayValue[event.calculator] # <<"0">>
  /\ engines[props[event.calculator].engine] = ClearedEngine

\* C6: resultFinalized is true exactly when the engine has received Equals
\* and, since then, no ClearAll (explicit or promoted), commit() or cancel();
\* a step turns it from false to true only by dispatching Equals, and from
\* true to false only by dispatching ClearAll or by being a commit or cancel.
C6_FinalizedIffEqualsPending ==
  [][\A c \in DOMAIN props :
       /\ equalsClicked[c] = equalsPending[c]
       /\ equalsClicked'[c] = equalsPending'[c]
       /\ ~equalsClicked[c] /\ equalsClicked'[c] =>
            /\ Handles(c)
            /\ \E i \in 1..Len(calls') : calls'[i] = OperatorCall(c, "Equals")
       /\ equalsClicked[c] /\ ~equalsClicked'[c] =>
            /\ Handles(c)
            /\ \/ \E i \in 1..Len(calls') : calls'[i] = OperatorCall(c, "ClearAll")
               \/ IsCommitEvent(event')
               \/ IsCancelEvent(event')]_vars

\* The flag is still true one value action after Equals.
C6_Witness ==
  /\ IsValueEvent(event)
  /\ equalsClicked[event.calculator]
  /\ equalsPending[event.calculator]

UnpromotedOperators ==
  {"Backspace", "Divide", "Multiply", "Subtract", "Add", "Decimal", "NegPos"}

\* C7: a value action, and each operator among Backspace, Divide, Multiply,
\* Subtract, Add, Decimal and NegPos, reaches the engine unchanged and leaves
\* resultFinalized as it was, whether the flag is false or true.
C7_OtherActionsKeepFlag ==
  [][\A c \in DOMAIN props :
       /\ Handles(c) /\ IsValueEvent(event') =>
            /\ Dispatched(calls') = <<ValueCall(c, <<ValueOf(event')>>)>>
            /\ equalsClicked'[c] = equalsClicked[c]
       /\ Handles(c) /\ IsOperatorEvent(event')
            /\ OperatorOf(event') \in UnpromotedOperators =>
            /\ Dispatched(calls') = <<OperatorCall(c, OperatorOf(event'))>>
            /\ equalsClicked'[c] = equalsClicked[c]]_vars

\* Backspace right after Equals went to the engine as Backspace, flag still true.
C7_Witness ==
  /\ IsOperatorEvent(event) /\ OperatorOf(event) = "Backspace"
  /\ Dispatched(calls) = <<OperatorCall(event.calculator, "Backspace")>>
  /\ equalsClicked[event.calculator]

\* What the engine is to receive for a sequence of input events of calculator
\* c, by the key table and the Clear tie-break, starting with resultFinalized
\* = finalized.
RECURSIVE Expected(_, _, _)
Expected(c, events, finalized) ==
  IF events = <<>> THEN <<>>
  ELSE LET ev == Head(events)
           sent ==
             CASE IsValueEvent(ev) -> <<ValueCall(c, <<ValueOf(ev)>>)>>
               [] IsOperatorEvent(ev) ->
                    <<OperatorCall(c, IF OperatorOf(ev) = "Clear" /\ finalized
                                      THEN "ClearAll" ELSE OperatorOf(ev))>>
               [] IsKey(ev, "Enter") /\ ~finalized -> <<OperatorCall(c, "Equals")>>
               [] OTHER -> <<>>
           after ==
             CASE IsCommitEvent(ev) \/ IsCancelEvent(ev) -> FALSE
               [] sent = <<OperatorCall(c, "Equals")>> -> TRUE
               [] sent = <<OperatorCall(c, "ClearAll")>> -> FALSE
               [] OTHER -> finalized
       IN sent \o Expected(c, Tail(events), after)

RECURSIVE Flatten(_)
Flatten(seqs) == IF seqs = <<>> THEN <<>> ELSE Head(seqs) \o Flatten(Tail(seqs))

\* C8: the processValue and processOperator calls the engine receives are, in
\* order, the input events mapped through the key table, with Clear promoted
\* when resultFinalized is true and Enter giving Equals only when it is false:
\* one call per value or operator event, none reordered, repeated or dropped.
C8_CallsFollowInputs ==
  recording =>
    /\ Len(record) = nEvents
    /\ Flatten([i \in 1..Len(record) |-> record[i].calls]) =
         Expected(1, [i \in 1..Len(record) |-> record[i].event], FALSE)
    /\ \A i \in 1..Len(record) :
         IsValueEvent(record[i].event) \/ IsOperatorEvent(record[i].event) =>
           Len(record[i].calls) = 1

\* The key = and then the C button: the engine received Equals, then ClearAll.
C8_Witness ==
  /\ recording
  /\ Len(record) = 2
  /\ IsKey(record[1].event, "=")
  /\ record[2].event.source = "operatorButton" /\ record[2].event.operator = "Clear"
  /\ Flatten([i \in 1..Len(record) |-> record[i].calls]) =
       <<OperatorCall(1, "Equals"), OperatorCall(1, "ClearAll")>>

\* C9: two calculators constructed without an engine each have an engine of
\* their own: no event of one changes the engine state the other observes.
C9_DefaultEnginesAreSeparate ==
  [][\A c, d \in DOMAIN props :
       /\ c # d
       /\ props[c].engine = DefaultEngine
       /\ props[d].engine = DefaultEngine
       /\ Handles(d)
       => /\ engines'[props[c].engine] = engines[props[c].engine]
          /\ EngineResult(engines'[props[c].engine]) =
               EngineResult(engines[props[c].engine])]_vars

\* C10: every processValue call, the one of the constructor included, passes
\* a single character out of 0-9 and the decimal point.
C10_ValueIsOneCharacter ==
  \A i \in Positions(calls, "processValue") :
    /\ Len(calls[i].chars) = 1
    /\ calls[i].chars[1] \in DigitKeys \cup {"."}

\* C11: at construction resultFinalized is false; without an initial value
\* displayValue is "0"; with an initial value, 0 included, the engine is
\* called with the value's text and displayValue is the string it returns.
C11_SeedGoesThroughEngine ==
  \A c \in DOMAIN props :
    nEvents = 0 =>
      /\ ~equalsClicked[c]
      /\ IF props[c].initialValue = NoValue
         THEN displayValue[c] = <<"0">>
         ELSE LET text == NumberToString(props[c].initialValue[1])
              IN /\ \E i \in 1..Len(calls) : calls[i] = ValueCall(c, text)
                 /\ displayValue[c] = EngineProcessValue(ClearedEngine, text).display

\* The step's last processValue or processOperator call, as a position of log
\* (0 when it made none).
LastDispatch(log) ==
  IF \E i \in 1..Len(log) : log[i].fn \in {"processValue", "processOperator"}
  THEN CHOOSE i \in 1..Len(log) :
         /\ log[i].fn \in {"processValue", "processOperator"}
         /\ \A j \in (i + 1)..Len(log) : log[j].fn \notin {"processValue", "processOperator"}
  ELSE 0

\* C12: displayValue is always the string the most recent processValue or
\* processOperator call returned, or the construction seed before any such
\* call: a step that makes such a call leaves the string its last call
\* returned, and every other step leaves displayValue as it was.
C12_DisplayMirrorsEngineReturn ==
  [][\A c \in DOMAIN props :
       /\ nEvents = 0 =>
            displayValue[c] = IF LastDispatch(calls) = 0 THEN <<"0">>
                              ELSE EngineAfter(ClearedEngine, calls).display
       /\ IF Handles(c) /\ LastDispatch(calls') # 0
          THEN displayValue'[c] =
                 EngineAfter(engines[props[c].engine],
                             SubSeq(calls', 1, LastDispatch(calls'))).display
          ELSE displayValue'[c] = displayValue[c]]_vars

\* After 12 and OK the display still reads the last engine return, "12",
\* although the engine has been cleared.
C12_Witness ==
  /\ event.source = "okButton"
  /\ displayValue[event.calculator] = <<"1", "2">>
  /\ engines[props[event.calculator].engine] = ClearedEngine

\* What a handler leaves: the engine calls it made and the state it wrote.
Outcome(s) ==
  [calls |-> Dispatched(s.calls), displayValue |-> s.displayValue,
   equalsClicked |-> s.equalsClicked, engines |-> s.engines]

\* C13: a digit key, and a key that stands for an operator, does what the
\* click on the key-pad button of the same digit or operator does from the
\* same state: the same engine call after the same promotion, the same
\* displayValue and the same resultFinalized.
C13_KeyEqualsButton ==
  [][\A c \in DOMAIN props :
       Handles(c) /\ event'.source = "key" =>
         LET after == [calls |-> Dispatched(calls'), displayValue |-> displayValue',
                       equalsClicked |-> equalsClicked', engines |-> engines']
         IN /\ event'.key \in DigitKeys =>
                 /\ event'.key \in KeyPadValues
                 /\ after = Outcome(onValueButtonClick(Current, c, <<event'.key>>))
            /\ event'.key \in DOMAIN KeyOperator =>
                 /\ KeyOperator[event'.key] \in KeyPadOperators
                 /\ after = Outcome(onOperatorButtonClick(Current, c,
                                                          KeyOperator[event'.key]))]_vars

\* The key "." after the key 1: the engine received the operator Decimal, as
\* it does for the "." button, and the display reads "1.".
C13_Witness ==
  /\ IsKey(event, ".")
  /\ Dispatched(calls) = <<OperatorCall(event.calculator, "Decimal")>>
  /\ displayValue[event.calculator] = <<"1", ".">>

\* The operators a call log passes to processOperator.
OperatorsIn(log) == {log[i].operator : i \in Positions(log, "processOperator")}

\* The operators calculator c sends for the keys, and for the key-pad
\* buttons, from the current state. While resultFinalized is false nothing
\* is promoted, so these are the operators issued. The two tables are fixed,
\* so the sets are compared in the states of the first events only.
IssuedByKeys(c) ==
  UNION {OperatorsIn(handleKeyDown(Current, c, key).calls) : key \in Keys}

IssuedByButtons(c) ==
  UNION {OperatorsIn(onOperatorButtonClick(Current, c, operator).calls) :
           operator \in KeyPadOperators}

\* C14 as stated: the operators the buttons can issue are exactly the
\* operators the keys can issue.
C14_SameOperatorSets ==
  \A c \in DOMAIN props :
    nEvents <= MaxProbedEvents /\ ~equalsClicked[c] =>
      IssuedByKeys(c) = IssuedByButtons(c)

\* C14, amended: every operator a key can issue is issued by some button, and
\* the buttons issue one operator more, NegPos, which no key issues.
C14_KeysWithinButtons ==
  \A c \in DOMAIN props :
    nEvents <= MaxProbedEvents /\ ~equalsClicked[c] =>
      /\ IssuedByKeys(c) \subseteq IssuedByButtons(c)
      /\ IssuedByButtons(c) \ IssuedByKeys(c) = {"NegPos"}

\* The NegPos button was clicked on the seed 12 and the engine received
\* NegPos, which no key can send from that state.
C14_Witness ==
  /\ event.source = "operatorButton" /\ event.operator = "NegPos"
  /\ Dispatched(calls) = <<OperatorCall(event.calculator, "NegPos")>>
  /\ displayValue[event.calculator] = <<"-", "1", "2">>
  /\ nEvents <= MaxProbedEvents /\ ~equalsClicked[event.calculator]
  /\ "NegPos" \notin IssuedByKeys(event.calculator)

\* The keys of the key table.
KeyTable == DigitKeys \cup DOMAIN KeyOperator \cup {"Escape", "Enter"}

\* C15: a key event whose key is not in the key table is a no-op: no call
\* on the engine (processValue, processOperator, clearAll or a read of the
\* result), no callback, no focus request, and displayValue, the flag and
\* every engine are as before.
C15_UnknownKeyIsNoOp ==
  [][\A c \in DOMAIN props :
       Handles(c) /\ event'.source = "key" /\ event'.key \notin KeyTable =>
         /\ calls' = <<>>
         /\ displayValue' = displayValue
         /\ equalsClicked' = equalsClicked
         /\ engines' = engines]_vars

\* The key Tab was pressed on a finalized result: nothing was called and the
\* result is still displayed and finalized.
C15_Witness ==
  /\ IsKey(event, "Tab")
  /\ nEvents = 3
  /\ calls = <<>>
  /\ equalsClicked[event.calculator]
  /\ displayValue[event.calculator] = <<"1", "2">>

\* The state commit() or cancel() starts from in the event ev of calculator
\* c: the state before the event, after the Equals of Enter where that runs.
BeforeReset(c, ev) ==
  IF IsKey(ev, "Enter") /\ ~equalsClicked[c]
  THEN onOperatorButtonClick(Current, c, "Equals")
  ELSE Current

\* C16: commit() and cancel() perform the full reset whether or not their
\* callback was supplied: clearAll() is called exactly once, as the last
\* call, and resultFinalized is false afterwards; with the callback absent
\* no callback is invoked and the result is not read; and the state they
\* leave depends on the state they start from only, never on the callback:
\* the engine cleared, every other engine and displayValue as before.
C16_ResetWithoutCallback ==
  [][\A c \in DOMAIN props :
       Handles(c) /\ (IsCommitEvent(event') \/ IsCancelEvent(event')) =>
         LET id == props[c].engine
             from == BeforeReset(c, event')
             supplied == IF IsCommitEvent(event') THEN props[c].onOk
                         ELSE props[c].onCancel
         IN /\ Cardinality(Positions(calls', "clearAll")) = 1
            /\ calls'[Len(calls')] = ClearAllCall(c)
            /\ ~equalsClicked'[c]
            /\ engines' = [from.engines EXCEPT ![id] = EngineClearAll(@)]
            /\ equalsClicked' = [from.equalsClicked EXCEPT ![c] = FALSE]
            /\ displayValue' = from.displayValue
            /\ ~supplied =>
                  /\ Positions(calls', "onOk") = {}
                  /\ Positions(calls', "onCancel") = {}
                  /\ Positions(calls', "result") = {}
                  /\ calls' = from.calls \o <<ClearAllCall(c)>>]_vars

\* The OK button was clicked on a finalized result with no commit callback
\* supplied: clearAll() alone was called and the engine is cleared.
C16_Witness ==
  /\ event.source = "okButton"
  /\ ~props[event.calculator].onOk
  /\ nEvents = 3
  /\ calls = <<ClearAllCall(event.calculator)>>
  /\ engines[props[event.calculator].engine] = ClearedEngine
  /\ displayValue[event.calculator] # <<"0">>
  /\ ~equalsClicked[event.calculator]

\* The engine raises in the call the event ev leads to, if it leads to one.
Raises(ev) == "engineRaises" \in DOMAIN ev

\* The event ev of calculator c leads to a processValue or processOperator
\* call: a value or operator action, or Enter while resultFinalized is false.
LeadsToEngineCall(c, ev) ==
  \/ IsValueEvent(ev)
  \/ IsOperatorEvent(ev)
  \/ IsKey(ev, "Enter") /\ ~equalsClicked[c]

\* C17: when the engine raises in a processValue or processOperator call,
\* the error reaches the host and the event is abandoned at that call: the
\* failing call is the only call of the event (no focus request, no
\* callback, no clearAll(), no read of the result) and displayValue,
\* resultFinalized and every engine are as before; on Enter the failing call
\* is Equals and commit() does not run. No other event ends with an error.
C17_EngineErrorPropagates ==
  [][\A c \in DOMAIN props :
       Handles(c) =>
         IF Raises(event') /\ LeadsToEngineCall(c, event')
         THEN /\ uncaught'
              /\ Len(calls') = 1
              /\ calls'[1].fn \in {"processValue", "processOperator"}
              /\ calls'[1].engine = props[c].engine
              /\ IsKey(event', "Enter") => calls' = <<OperatorCall(c, "Equals")>>
              /\ Positions(calls', "onOk") = {} /\ Positions(calls', "clearAll") = {}
              /\ displayValue' = displayValue
              /\ equalsClicked' = equalsClicked
              /\ engines' = engines
         ELSE ~uncaught']_vars

\* Enter was pressed on the entry 127 and the engine raised in Equals: the
\* error reached the host, nothing was committed, the entry is still shown.
C17_Witness ==
  /\ IsKey(event, "Enter") /\ Raises(event)
  /\ uncaught
  /\ calls = <<OperatorCall(event.calculator, "Equals")>>
  /\ displayValue[event.calculator] = <<"1", "2", "7">>
  /\ engines[props[event.calculator].engine] # ClearedEngine
  /\ ~equalsClicked[event.calculator]

\* Every processValue and processOperator call recorded so far, in order.
RecordedCalls == Flatten([i \in 1..Len(record) |-> record[i].calls])

\* C18: whenever resultFinalized is true, the most recent action dispatched
\* to the engine was Equals; so Clear is promoted to ClearAll only when no
\* value or other operator action has been processed after the last Equals.
C18_FinalizedMeansEqualsLast ==
  recording =>
    \A c \in DOMAIN props :
      equalsClicked[c] =>
        /\ RecordedCalls # <<>>
        /\ RecordedCalls[Len(RecordedCalls)] = OperatorCall(c, "Equals")

\* The ProjectInfo list of a client answer.
InfosOf(list) == [i \in 1..Len(list) |-> createProjectInfo(list[i])]

\* C19: getProjects with scope Invited sends exactly one query to the
\* client, getInvitedProjects, and resolves to one ProjectInfo per project
\* of that query's answer, in order; the general getProjects query is sent
\* for the other scopes only, with isFavorite set exactly for Favorites and
\* isMRU set exactly for MostRecentlyUsed.
C19_InvitedIsOneQuery ==
  request # <<>> =>
    LET projectScope == request[1].projectScope
    IN /\ \A i \in 1..Len(queries) :
            queries[i].fn = "getProjects" =>
              /\ projectScope # "Invited"
              /\ queries[i].options.isFavorite = (projectScope = "Favorites")
              /\ queries[i].options.isMRU = (projectScope = "MostRecentlyUsed")
       /\ projectScope = "Invited" =>
            /\ Len(queries) = 1
            /\ queries[1].fn = "getInvitedProjects"
            /\ settled.state = "resolved" =>
                 settled.projects = InfosOf(queries[1].answer[1])

====
